---- MODULE Spec2Model ----
(***************************************************************************)
(* Model of the path-tracing renderer's scene, bounding boxes, bounding    *)
(* volume hierarchy and nearest-hit queries.                               *)
(*                                                                         *)
(* Numbers.  Coordinates and ray parameters are integers (the f32 values   *)
(* of the program restricted to a lattice on which every operation the     *)
(* model performs is exact).  The three non-finite f32 values that the     *)
(* slab test produces are kept: PosInf, NegInf and NaN, with the IEEE /    *)
(* Rust rules for multiplication, comparison, min and max.                 *)
(***************************************************************************)
EXTENDS Integers, Sequences, FiniteSets, TLC

VARIABLES objects, lights, background, bvh, lastOp, prevBuild,
          node, ray, ray_t, hit_bvh, hit_lin,
          box0, box1, sbox, shape,
          hit, coord_a, coord_b, rec_in, accepted,
          max_bounces, stack, returned, added, result,
          pos, shutter_time, light_terms,
          iterations, width, height, col, row, cell, pixel_color, traced,
          accepted_n, cells, sample_st, pixel,
          task, draws, colors, buffer, pb,
          material, scatter_f

vars == <<objects, lights, background, bvh, lastOp, prevBuild,
          node, ray, ray_t, hit_bvh, hit_lin,
          box0, box1, sbox, shape,
          hit, coord_a, coord_b, rec_in, accepted,
          max_bounces, stack, returned, added, result,
          pos, shutter_time, light_terms,
          iterations, width, height, col, row, cell, pixel_color, traced,
          accepted_n, cells, sample_st, pixel,
          task, draws, colors, buffer, pb,
          material, scatter_f>>

sceneVars == <<objects, lights, background, bvh>>
queryVars == <<node, ray, ray_t, hit_bvh, hit_lin>>
geomVars == <<box0, box1, sbox, shape>>
hitVars == <<hit, coord_a, coord_b, rec_in, accepted>>
traceVars == <<max_bounces, stack, returned, added, result>>
lightVars == <<pos, shutter_time, light_terms>>
pixelVars == <<iterations, col, row, cell, pixel_color, traced,
               accepted_n, cells, sample_st, pixel>>
rowVars == <<width, height, task, draws, colors, buffer, pb>>
matVars == <<material, scatter_f>>
otherVars == <<hitVars, traceVars, lightVars, pixelVars, rowVars, matVars>>

(***************************************************************************)
(* Bounds of the model.                                                    *)
(***************************************************************************)
MaxObjs == 3
MaxLights == 1
MaxCoord == 1
MaxMove == 1

(***************************************************************************)
(* f32 values outside the lattice.                                         *)
(***************************************************************************)
PosInf == 1000
NegInf == -1000
NaN == 7777

\* Option::None of every Option<T> in the program.
NoneVal == [kind |-> "None"]

Abs(x) == IF x < 0 THEN -x ELSE x

Sign(x) == IF x < 0 THEN -1 ELSE IF x > 0 THEN 1 ELSE 0

\* f32 comparison `a <= b`: false as soon as an operand is NaN.
FLe(a, b) == a # NaN /\ b # NaN /\ a <= b

\* f32::max: a NaN operand is ignored.
FMax(a, b) == IF b = NaN THEN a ELSE IF a = NaN THEN b ELSE IF a < b THEN b ELSE a

\* f32::min: a NaN operand is ignored.
FMin(a, b) == IF b = NaN THEN a ELSE IF a = NaN THEN b ELSE IF b < a THEN b ELSE a

\* `1.0 / d` for a direction component d in {-1, 0, 1}.
FInv(d) == IF d = 0 THEN PosInf ELSE d

\* `x * inv_d` for a finite x and inv_d in {-1, 1, +inf}.
FMul(x, inv_d) ==
    IF inv_d = PosInf
    THEN IF x > 0 THEN PosInf ELSE IF x < 0 THEN NegInf ELSE NaN
    ELSE x * inv_d

(***************************************************************************)
(* glam::Vec3A                                                             *)
(***************************************************************************)
Axes == 1..3

VAdd(a, b) == [i \in Axes |-> a[i] + b[i]]

VSub(a, b) == [i \in Axes |-> a[i] - b[i]]

VScale(k, a) == [i \in Axes |-> k * a[i]]

VNeg(a) == [i \in Axes |-> -a[i]]

Dot(a, b) == a[1] * b[1] + a[2] * b[2] + a[3] * b[3]

\* f32 arithmetic on values that may be infinite or NaN.
IsFinite(x) == x \notin {PosInf, NegInf, NaN}

FLt(a, b) == a # NaN /\ b # NaN /\ a < b

FNeg(x) == IF x = NaN THEN NaN ELSE -x

FTimes(x, y) ==
    IF x = NaN \/ y = NaN THEN NaN
    ELSE IF IsFinite(x) /\ IsFinite(y) THEN x * y
    ELSE IF x = 0 \/ y = 0 THEN NaN
    ELSE IF Sign(x) = Sign(y) THEN PosInf ELSE NegInf

FPlus(x, y) ==
    IF x = NaN \/ y = NaN THEN NaN
    ELSE IF IsFinite(x) /\ IsFinite(y) THEN x + y
    ELSE IF IsFinite(y) THEN x
    ELSE IF IsFinite(x) THEN y
    ELSE IF x = y THEN x ELSE NaN

\* x / d for finite x and d.
FDiv(x, d) ==
    IF d # 0 THEN x \div d
    ELSE IF x = 0 THEN NaN
    ELSE IF x > 0 THEN PosInf ELSE NegInf

FDot(a, b) == FPlus(FPlus(FTimes(a[1], b[1]), FTimes(a[2], b[2])), FTimes(a[3], b[3]))

FVNeg(a) == [i \in Axes |-> FNeg(a[i])]

Cross(a, b) == <<a[2] * b[3] - a[3] * b[2],
                 a[3] * b[1] - a[1] * b[3],
                 a[1] * b[2] - a[2] * b[1]>>

\* Vec3A::min, component-wise.
VMin(a, b) == [i \in Axes |-> IF b[i] < a[i] THEN b[i] ELSE a[i]]

\* Vec3A::max, component-wise.
VMax(a, b) == [i \in Axes |-> IF a[i] < b[i] THEN b[i] ELSE a[i]]

VSplat(r) == <<r, r, r>>

VZero == <<0, 0, 0>>

(***************************************************************************)
(* Interval                                                                *)
(***************************************************************************)
Interval_new(lo, hi) == [min |-> lo, max |-> hi]

Interval_size(iv) == iv.max - iv.min

Interval_expand(iv, delta) == [min |-> iv.min - delta, max |-> iv.max + delta]

Interval_contains(iv, val) == FLe(iv.min, val) /\ FLe(val, iv.max)

(***************************************************************************)
(* Ray                                                                     *)
(***************************************************************************)
Ray_new(ori, dir, t) == [ori |-> ori, dir |-> dir, t |-> t]

Ray_at(r, t) == VAdd(r.ori, VScale(t, r.dir))

(***************************************************************************)
(* Aabb                                                                    *)
(***************************************************************************)
Aabb_new(lo, hi) == [min |-> lo, max |-> hi]

\* Faulty variant of surrounding_box: the upper corner taken with min instead of max.
Aabb_surrounding_box_minmax(b0, b1) == Aabb_new(VMin(b0.min, b1.min), VMin(b0.max, b1.max))

Aabb_surrounding_box(b0, b1) == Aabb_new(VMin(b0.min, b1.min), VMax(b0.max, b1.max))

\* Box spanned by two points given in any order.
Aabb_from_points(a, b) == Aabb_new(VMin(a, b), VMax(a, b))

Aabb_axis_interval(b, axis) == Interval_new(b.min[axis], b.max[axis])

\* Axis of largest extent, the lowest index winning a tie.
Aabb_longest_axis(b) ==
    LET sx == Interval_size(Aabb_axis_interval(b, 1))
        sy == Interval_size(Aabb_axis_interval(b, 2))
        sz == Interval_size(Aabb_axis_interval(b, 3))
    IN IF sx >= sy /\ sx >= sz THEN 1 ELSE IF sy >= sz THEN 2 ELSE 3

\* Smallest extent a box may have on an axis, and the amount a thinner axis
\* is widened by on both sides.
PadDelta == 1

Aabb_padding_to_minimal(b) ==
    LET pad(axis) == IF Interval_size(Aabb_axis_interval(b, axis)) < PadDelta
                     THEN Interval_expand(Aabb_axis_interval(b, axis), PadDelta)
                     ELSE Aabb_axis_interval(b, axis)
    IN Aabb_new([i \in Axes |-> pad(i).min], [i \in Axes |-> pad(i).max])

\* One slab of the test: the running [t_min, t_max] after axis `axis`.
Aabb_slab(b, r, t_min, t_max, axis) ==
    LET inv_d == FInv(r.dir[axis])
        a0 == FMul(b.min[axis] - r.ori[axis], inv_d)
        a1 == FMul(b.max[axis] - r.ori[axis], inv_d)
        t0 == IF inv_d < 0 THEN a1 ELSE a0
        t1 == IF inv_d < 0 THEN a0 ELSE a1
    IN Interval_new(FMax(t_min, t0), FMin(t_max, t1))

\* The test that ends the slab loop with `false`.
Aabb_empty(iv) == FLe(iv.max, iv.min)

RECURSIVE Aabb_loop(_, _, _, _)
Aabb_loop(b, r, iv, axis) ==
    IF axis > 3 THEN TRUE
    ELSE LET nx == Aabb_slab(b, r, iv.min, iv.max, axis)
         IN IF Aabb_empty(nx) THEN FALSE ELSE Aabb_loop(b, r, nx, axis + 1)

Aabb_intersect(b, r, iv) == Aabb_loop(b, r, iv, 1)

\* A point lies in a box (faces included).
Aabb_contains(b, p) == \A i \in Axes : b.min[i] <= p[i] /\ p[i] <= b.max[i]

Corners(b) == {<<x, y, z>> : x \in {b.min[1], b.max[1]},
                             y \in {b.min[2], b.max[2]},
                             z \in {b.min[3], b.max[3]}}

(***************************************************************************)
(* HitRecord                                                               *)
(***************************************************************************)
\* A rational number, for the local coordinates of a Quad.
Rat(n, d) == [num |-> n, den |-> d]

\* The texture coordinates of a sphere hit (spherical angles) are not on
\* the lattice; the record carries this token in their place.
SphereUv == [kind |-> "sphere_uv"]

\* HitRecord::default(), wrapped in Some.
HitRecord_default == [kind |-> "Some", p |-> VZero, t |-> 0, normal |-> VZero,
                      front_face |-> FALSE, material |-> 0,
                      u |-> Rat(0, 1), v |-> Rat(0, 1)]

HitRecord_set_face_normal(rec, r, outward_normal) ==
    LET front == FLt(FDot(r.dir, outward_normal), 0)
    IN [rec EXCEPT !.front_face = front,
                   !.normal = IF front THEN outward_normal ELSE FVNeg(outward_normal)]

(***************************************************************************)
(* Sphere                                                                  *)
(***************************************************************************)
\* Faulty variant of Sphere::new: a moving sphere keeps the box of its
\* starting position.
Sphere_new_static_box(center_from, center_to, radius) ==
    LET r == Abs(radius)
        radius_vec == VSplat(r)
        box_from == Aabb_from_points(VSub(center_from, radius_vec), VAdd(center_from, radius_vec))
    IN IF center_to = NoneVal
       THEN [kind |-> "sphere", center |-> Ray_new(center_from, VZero, 0),
             radius |-> radius, aabb |-> box_from]
       ELSE [kind |-> "sphere",
             center |-> Ray_new(center_from, VSub(center_to, center_from), 0),
             radius |-> radius, aabb |-> box_from]

Sphere_new(center_from, center_to, radius) ==
    LET r == Abs(radius)
        radius_vec == VSplat(r)
        box_from == Aabb_from_points(VSub(center_from, radius_vec), VAdd(center_from, radius_vec))
    IN IF center_to = NoneVal
       THEN [kind |-> "sphere", center |-> Ray_new(center_from, VZero, 0),
             radius |-> radius, aabb |-> box_from]
       ELSE [kind |-> "sphere",
             center |-> Ray_new(center_from, VSub(center_to, center_from), 0),
             radius |-> radius,
             aabb |-> Aabb_surrounding_box(box_from,
                         Aabb_from_points(VSub(center_to, radius_vec), VAdd(center_to, radius_vec)))]

\* Integer square root.
ISqrt(n) == CHOOSE k \in 0..n : k * k <= n /\ (k + 1) * (k + 1) > n

\* The quantities of the quadratic |O + tD - C|^2 = r^2.
Sphere_quadratic(s, r) ==
    LET current_center == Ray_at(s.center, r.t)
        oc == VSub(r.ori, current_center)
        a == Dot(r.dir, r.dir)
        frac_b_2 == Dot(r.dir, oc)
        c == Dot(oc, oc) - s.radius * s.radius
    IN [current_center |-> current_center, a |-> a, frac_b_2 |-> frac_b_2,
        discriminant |-> frac_b_2 * frac_b_2 - a * c]

\* Both roots, their hit points and their normals lie on the lattice.
Sphere_exact(s, r) ==
    LET q == Sphere_quadratic(s, r)
        sqrt_d == ISqrt(q.discriminant)
        onLattice(root) == \A i \in Axes :
            IF s.radius = 0 THEN TRUE
            ELSE (Ray_at(r, root)[i] - q.current_center[i]) % Abs(s.radius) = 0
    IN IF q.discriminant < 0 THEN TRUE
       ELSE IF sqrt_d * sqrt_d # q.discriminant THEN FALSE
       ELSE IF (-q.frac_b_2 - sqrt_d) % q.a # 0 \/ (-q.frac_b_2 + sqrt_d) % q.a # 0 THEN FALSE
       ELSE /\ onLattice((-q.frac_b_2 - sqrt_d) \div q.a)
            /\ onLattice((-q.frac_b_2 + sqrt_d) \div q.a)

\* Faulty variant of Sphere::intersect: the far root is tried first.
Sphere_intersect_far_first(s, r, iv) ==
    LET q == Sphere_quadratic(s, r)
        sqrt_d == ISqrt(q.discriminant)
        near == (-q.frac_b_2 - sqrt_d) \div q.a
        far == (-q.frac_b_2 + sqrt_d) \div q.a
        root == IF Interval_contains(iv, far) THEN far ELSE near
        p == Ray_at(r, root)
        normal == [i \in Axes |-> FDiv(p[i] - q.current_center[i], s.radius)]
        rec == [HitRecord_default EXCEPT !.t = root, !.p = p]
    IN IF q.discriminant < 0 THEN NoneVal
       ELSE IF ~Interval_contains(iv, near) /\ ~Interval_contains(iv, far) THEN NoneVal
       ELSE [HitRecord_set_face_normal(rec, r, normal) EXCEPT !.u = SphereUv, !.v = SphereUv]

Sphere_intersect(s, r, iv) ==
    LET q == Sphere_quadratic(s, r)
        sqrt_d == ISqrt(q.discriminant)
        near == (-q.frac_b_2 - sqrt_d) \div q.a
        far == (-q.frac_b_2 + sqrt_d) \div q.a
        root == IF Interval_contains(iv, near) THEN near ELSE far
        p == Ray_at(r, root)
        normal == [i \in Axes |-> FDiv(p[i] - q.current_center[i], s.radius)]
        rec == [HitRecord_default EXCEPT !.t = root, !.p = p]
    IN IF q.discriminant < 0 THEN NoneVal
       ELSE IF ~Interval_contains(iv, near) /\ ~Interval_contains(iv, far) THEN NoneVal
       ELSE [HitRecord_set_face_normal(rec, r, normal) EXCEPT !.u = SphereUv, !.v = SphereUv]

(***************************************************************************)
(* Quad                                                                    *)
(***************************************************************************)
\* Vec3A::normalize and Vec3A::length for a vector along one coordinate axis.
Normalize(n) == [i \in Axes |-> Sign(n[i])]

Length(n) == Abs(n[1]) + Abs(n[2]) + Abs(n[3])

Quad_new(origin, u, v) ==
    LET n == Cross(u, v)
        normal == Normalize(n)
        bbox_diagonal1 == Aabb_from_points(origin, VAdd(VAdd(origin, u), v))
        bbox_diagonal2 == Aabb_from_points(VAdd(origin, u), VAdd(origin, v))
    IN [kind |-> "quad", origin |-> origin, u |-> u, v |-> v,
        normal |-> normal, area |-> Length(n), D |-> Dot(normal, origin),
        w |-> [num |-> n, den |-> Dot(n, n)],
        aabb |-> Aabb_padding_to_minimal(Aabb_surrounding_box(bbox_diagonal1, bbox_diagonal2))]

\* Interval::contains for a rational value with den > 0.
Interval_contains_rat(iv, val) ==
    iv.min * val.den <= val.num /\ val.num <= iv.max * val.den

\* Faulty variant of is_interior: the far edges of the quad are left out.
Quad_is_interior_half_open(a, b, rec) ==
    IF ~(0 <= a.num /\ a.num < a.den) \/ ~(0 <= b.num /\ b.num < b.den)
    THEN <<FALSE, rec>>
    ELSE <<TRUE, [rec EXCEPT !.u = a, !.v = b]>>

\* The pair <<accepted, record>>.
Quad_is_interior(a, b, rec) ==
    LET unit_interval == Interval_new(0, 1)
    IN IF ~Interval_contains_rat(unit_interval, a) \/ ~Interval_contains_rat(unit_interval, b)
       THEN <<FALSE, rec>>
       ELSE <<TRUE, [rec EXCEPT !.u = a, !.v = b]>>

\* The plane parameter is on the lattice (the normal is a unit axis vector).
Quad_exact(q, r) == TRUE

\* Faulty variant of Quad::intersect: the plane is met outside ray_t too.
Quad_intersect_unbounded(q, r, iv) ==
    LET denominator == Dot(q.normal, r.dir)
        root == (q.D - Dot(q.normal, r.ori)) \div denominator
        p == VSub(Ray_at(r, root), q.origin)
        alpha == Rat(Dot(q.w.num, Cross(p, q.v)), q.w.den)
        beta == Rat(Dot(q.w.num, Cross(q.u, p)), q.w.den)
        inter == Quad_is_interior(alpha, beta, HitRecord_default)
        rec == [inter[2] EXCEPT !.t = root, !.p = Ray_at(r, root)]
    IN IF Abs(denominator) < 1 THEN NoneVal
       ELSE IF ~inter[1] THEN NoneVal
       ELSE HitRecord_set_face_normal(rec, r, q.normal)

Quad_intersect(q, r, iv) ==
    LET denominator == Dot(q.normal, r.dir)
        root == (q.D - Dot(q.normal, r.ori)) \div denominator
        p == VSub(Ray_at(r, root), q.origin)
        alpha == Rat(Dot(q.w.num, Cross(p, q.v)), q.w.den)
        beta == Rat(Dot(q.w.num, Cross(q.u, p)), q.w.den)
        inter == Quad_is_interior(alpha, beta, HitRecord_default)
        rec == [inter[2] EXCEPT !.t = root, !.p = Ray_at(r, root)]
    IN IF Abs(denominator) < 1 THEN NoneVal
       ELSE IF ~Interval_contains(iv, root) THEN NoneVal
       ELSE IF ~inter[1] THEN NoneVal
       ELSE HitRecord_set_face_normal(rec, r, q.normal)

(***************************************************************************)
(* Transformed: a shape composed with an affine transformation.  A Mat4    *)
(* is the pair of its linear part (three rows) and its translation.        *)
(***************************************************************************)
Nxt(i) == (i % 3) + 1

Mat3_mul_vec3a(m, v) == [i \in Axes |-> FDot(m[i], v)]

Mat3_transpose(m) == [i \in Axes |-> [j \in Axes |-> m[j][i]]]

Mat3_determinant(m) ==
    m[1][1] * (m[2][2] * m[3][3] - m[2][3] * m[3][2])
    - m[1][2] * (m[2][1] * m[3][3] - m[2][3] * m[3][1])
    + m[1][3] * (m[2][1] * m[3][2] - m[2][2] * m[3][1])

\* The adjugate over the determinant.
Mat3_inverse(m) ==
    LET cof(i, j) == m[Nxt(i)][Nxt(j)] * m[Nxt(Nxt(i))][Nxt(Nxt(j))]
                     - m[Nxt(i)][Nxt(Nxt(j))] * m[Nxt(Nxt(i))][Nxt(j)]
    IN [i \in Axes |-> [j \in Axes |-> cof(j, i) \div Mat3_determinant(m)]]

Mat4(linear, translation) == [linear |-> linear, translation |-> translation]

Mat4_inverse(m) ==
    LET inv == Mat3_inverse(m.linear)
    IN Mat4(inv, VNeg(Mat3_mul_vec3a(inv, m.translation)))

Mat4_transform_point(m, p) == VAdd(Mat3_mul_vec3a(m.linear, p), m.translation)

Mat3_identity == [i \in Axes |-> [j \in Axes |-> IF i = j THEN 1 ELSE 0]]

Mat4_from_translation(v) == Mat4(Mat3_identity, v)

\* Mat4::from_axis_angle for a quarter turn about a coordinate axis.
Mat4_from_axis_quarter_turn(axis) ==
    Mat4([i \in Axes |-> [j \in Axes |->
             IF i = axis /\ j = axis THEN 1
             ELSE IF i = Nxt(axis) /\ j = Nxt(Nxt(axis)) THEN -1
             ELSE IF i = Nxt(Nxt(axis)) /\ j = Nxt(axis) THEN 1
             ELSE 0]], VZero)

Mat4_from_scale(v) == Mat4([i \in Axes |-> [j \in Axes |-> IF i = j THEN v[i] ELSE 0]], VZero)

\* The ray carried into the space of the matrix: origin as a point,
\* direction as a vector, time kept.
Ray_apply_transform(r, m) ==
    Ray_new(Mat4_transform_point(m, r.ori), Mat3_mul_vec3a(m.linear, r.dir), r.t)

\* Vec3A::normalize of a vector along one coordinate axis, or of a NaN vector.
Vec3_normalize(n) ==
    IF \E i \in Axes : ~IsFinite(n[i]) THEN VSplat(NaN) ELSE Normalize(n)

Transformed_new(sh, transform) ==
    LET linear == transform.linear
    IN [kind |-> "transformed", shape |-> sh, transform |-> transform,
        linear |-> linear,
        inverse_transform |-> Mat4_inverse(transform),
        normal_transform |-> Mat3_transpose(Mat3_inverse(linear))]

(***************************************************************************)
(* Object.  The scene's objects are drawn from a catalogue of shapes; an   *)
(* object is named by its index, which also stands for its material.       *)
(***************************************************************************)
NumShapes == 4

Catalogue == <<Sphere_new(<<0, 0, 0>>, NoneVal, 1),
               Sphere_new(<<0, 0, 3>>, NoneVal, -1),
               Quad_new(<<-1, -1, -2>>, <<2, 0, 0>>, <<0, 2, 0>>),
               Sphere_new(<<0, 0, 0>>, <<2, 0, 0>>, 1),
               Quad_new(<<2, -1, 1>>, <<0, 0, -2>>, <<0, 2, 0>>)>>

ObjectIds == 1..NumShapes

\* dyn Bounded: dispatch on the shape behind the object.
Shape_intersect(sh, r, iv) ==
    IF sh.kind = "sphere" THEN Sphere_intersect(sh, r, iv) ELSE Quad_intersect(sh, r, iv)

Shape_exact(sh, r) ==
    IF sh.kind = "sphere" THEN Sphere_exact(sh, r) ELSE Quad_exact(sh, r)

Transformed_intersect(tr, r, iv) ==
    LET ray_trans == Ray_apply_transform(r, tr.inverse_transform)
        rec == Shape_intersect(tr.shape, ray_trans, iv)
    IN IF rec = NoneVal THEN NoneVal
       ELSE [rec EXCEPT !.p = Mat4_transform_point(tr.transform, rec.p),
                        !.normal = Vec3_normalize(Mat3_mul_vec3a(tr.normal_transform, rec.normal))]

\* dyn Hittable: a bare shape or a transformed one.
Hittable_intersect(sh, r, iv) ==
    IF sh.kind = "transformed" THEN Transformed_intersect(sh, r, iv)
    ELSE Shape_intersect(sh, r, iv)

Hittable_exact(sh, r) ==
    IF sh.kind = "transformed"
    THEN Shape_exact(sh.shape, Ray_apply_transform(r, sh.inverse_transform))
    ELSE Shape_exact(sh, r)

Object_intersect(o, r, iv) ==
    LET rec == Shape_intersect(Catalogue[o], r, iv)
    IN IF rec = NoneVal THEN NoneVal ELSE [rec EXCEPT !.material = o]

Object_bbox(o) == Catalogue[o].aabb

(***************************************************************************)
(* BvhNode                                                                 *)
(***************************************************************************)
\* The value of a call that panicked.
Panic == [kind |-> "Panic"]

BvhNode_bbox(n) == n.bbox

\* The first loop of build_from_slice: the union of the slice's boxes.
RECURSIVE BvhNode_union(_, _, _)
BvhNode_union(objs, i, acc) ==
    IF i > Len(objs) THEN acc
    ELSE BvhNode_union(objs, i + 1, Aabb_surrounding_box(acc, Object_bbox(objs[i])))

\* box_compare(a, b, axis) = Less.
BvhNode_box_less(a, b, axis) ==
    Aabb_axis_interval(a, axis).min < Aabb_axis_interval(b, axis).min

\* slice::sort_by (a stable sort) with box_compare on `axis`: insertion of
\* objs[i] after the last element that is not greater.
RECURSIVE BvhNode_insert(_, _, _)
BvhNode_insert(sorted, o, axis) ==
    IF sorted = <<>> THEN <<o>>
    ELSE IF BvhNode_box_less(Object_bbox(o), Object_bbox(sorted[Len(sorted)]), axis)
         THEN Append(BvhNode_insert(SubSeq(sorted, 1, Len(sorted) - 1), o, axis),
                     sorted[Len(sorted)])
         ELSE Append(sorted, o)

RECURSIVE BvhNode_sort(_, _, _, _)
BvhNode_sort(objs, i, acc, axis) ==
    IF i > Len(objs) THEN acc
    ELSE BvhNode_sort(objs, i + 1, BvhNode_insert(acc, objs[i], axis), axis)

\* Faulty variant of the split: the element at the split index is lost.
BvhNode_split_drop(sorted) ==
    LET mid == IF Len(sorted) = 2 THEN 1 ELSE Len(sorted) \div 2
    IN <<SubSeq(sorted, 1, mid), SubSeq(sorted, mid + 2, Len(sorted))>>

\* Faulty variant of the split: the middle object of an odd slice goes left.
BvhNode_split_ceil(sorted) ==
    LET mid == (Len(sorted) + 1) \div 2
    IN <<SubSeq(sorted, 1, mid), SubSeq(sorted, mid + 1, Len(sorted))>>

\* split_at_mut(1) for two objects, split_at_mut(len / 2) for more.
BvhNode_split(sorted) ==
    LET mid == IF Len(sorted) = 2 THEN 1 ELSE Len(sorted) \div 2
    IN <<SubSeq(sorted, 1, mid), SubSeq(sorted, mid + 1, Len(sorted))>>

\* Faulty variant of the internal node: the box of the left child only.
BvhNode_node_left_box(l, r) ==
    [kind |-> "Node", left |-> l, right |-> r, bbox |-> BvhNode_bbox(l)]

BvhNode_node(l, r) ==
    [kind |-> "Node", left |-> l, right |-> r,
     bbox |-> Aabb_surrounding_box(BvhNode_bbox(l), BvhNode_bbox(r))]

BvhNode_leaf(o) == [kind |-> "Leaf", object |-> o, bbox |-> Object_bbox(o)]

\* Faulty variant of the empty case: a node is returned instead of a panic.
BvhNode_empty_slice_leaf == BvhNode_leaf(1)

\* split_first().unwrap() on an empty slice.
BvhNode_empty_slice == Panic

RECURSIVE BvhNode_build_from_slice(_)
BvhNode_build_from_slice(objs) ==
    IF objs = <<>> THEN BvhNode_empty_slice
    ELSE LET bbox == BvhNode_union(objs, 2, Object_bbox(objs[1]))
             axis_index == Aabb_longest_axis(bbox)
             sorted == BvhNode_sort(objs, 1, <<>>, axis_index)
             halves == BvhNode_split(sorted)
             left_node == BvhNode_build_from_slice(halves[1])
             right_node == BvhNode_build_from_slice(halves[2])
         IN IF Len(sorted) = 1 THEN BvhNode_leaf(sorted[1])
            ELSE IF left_node = Panic \/ right_node = Panic THEN Panic
            ELSE BvhNode_node(left_node, right_node)

BvhNode_build(objs) == BvhNode_build_from_slice(objs)

\* The interval the right child is searched over, given the left child's hit.
BvhNode_right_interval(hit_left, iv) ==
    LET t_max == IF hit_left = NoneVal THEN iv.max ELSE hit_left.t
    IN Interval_new(iv.min, t_max)

RECURSIVE BvhNode_intersect(_, _, _)
BvhNode_intersect(n, r, iv) ==
    IF n.kind = "Leaf"
    THEN IF ~Aabb_intersect(n.bbox, r, iv) THEN NoneVal
         ELSE Object_intersect(n.object, r, iv)
    ELSE IF ~Aabb_intersect(n.bbox, r, iv) THEN NoneVal
         ELSE LET hit_left == BvhNode_intersect(n.left, r, iv)
                  hit_right == BvhNode_intersect(n.right, r, BvhNode_right_interval(hit_left, iv))
              IN IF hit_right # NoneVal THEN hit_right ELSE hit_left

(***************************************************************************)
(* Renderer::intersect                                                     *)
(***************************************************************************)
RECURSIVE Renderer_scan(_, _, _, _, _, _)
Renderer_scan(objs, i, r, iv, closest_so_far, rec) ==
    IF i > Len(objs) THEN rec
    ELSE LET obj_rec == Object_intersect(objs[i], r, Interval_new(iv.min, closest_so_far))
         IN IF obj_rec # NoneVal
            THEN Renderer_scan(objs, i + 1, r, iv, obj_rec.t, obj_rec)
            ELSE Renderer_scan(objs, i + 1, r, iv, closest_so_far, rec)

Renderer_intersect(scene_objects, scene_bvh, r, iv) ==
    IF scene_bvh # NoneVal THEN BvhNode_intersect(scene_bvh, r, iv)
    ELSE Renderer_scan(scene_objects, 1, r, iv, iv.max, NoneVal)

\* The intervals that the traversal of node n constructs or hands on, each
\* with the interval of the call that made it.
RECURSIVE BvhNode_intersect_intervals(_, _, _)
BvhNode_intersect_intervals(n, r, iv) ==
    IF n.kind = "Leaf" \/ ~Aabb_intersect(n.bbox, r, iv) THEN {}
    ELSE LET hit_left == BvhNode_intersect(n.left, r, iv)
             right_t == BvhNode_right_interval(hit_left, iv)
         IN {[parent |-> iv, child |-> iv], [parent |-> iv, child |-> right_t]}
            \cup BvhNode_intersect_intervals(n.left, r, iv)
            \cup BvhNode_intersect_intervals(n.right, r, right_t)

\* The search intervals of the linear scan, from object i on.
RECURSIVE Renderer_scan_intervals(_, _, _, _, _)
Renderer_scan_intervals(objs, i, r, iv, closest_so_far) ==
    IF i > Len(objs) THEN {}
    ELSE LET search_interval == Interval_new(iv.min, closest_so_far)
             obj_rec == Object_intersect(objs[i], r, search_interval)
         IN {[parent |-> iv, child |-> search_interval]}
            \cup Renderer_scan_intervals(objs, i + 1, r, iv,
                                         IF obj_rec # NoneVal THEN obj_rec.t
                                         ELSE closest_so_far)

Renderer_intersect_intervals(scene_objects, scene_bvh, r, iv) ==
    IF scene_bvh # NoneVal THEN BvhNode_intersect_intervals(scene_bvh, r, iv)
    ELSE Renderer_scan_intervals(scene_objects, 1, r, iv, iv.max)

(***************************************************************************)
(* Input domains                                                           *)
(***************************************************************************)
\* All sequences over S of length lo..hi.
SeqsOf(S, lo, hi) == UNION {[1..n -> S] : n \in lo..hi}

Colors == {"BLACK", "WHITE"}

LightKinds == {"Ambient", "Point"}

MaxT == 3

RayOrigins == {<<x, 0, z>> : x \in 0..1, z \in -3..5}

RayDirs == {<<dx, 0, dz>> : dx \in -1..1, dz \in -1..1} \ {VZero}

RayTimes == 0..1

Rays == {Ray_new(o, d, t) : o \in RayOrigins, d \in RayDirs, t \in RayTimes}

Intervals == {iv \in {Interval_new(lo, hi) : lo \in 0..1, hi \in (1..MaxT) \cup {PosInf}} :
                 iv.min <= iv.max}

\* Every shape of the scene answers the ray on the lattice.
RayExact(objs, r) == \A i \in 1..Len(objs) : Shape_exact(Catalogue[objs[i]], r)

Points == [Axes -> 0..MaxCoord]

Boxes == {Aabb_new(lo, hi) : lo \in Points, hi \in Points}

MaxRadius == 2

Radii == (-MaxRadius)..MaxRadius

Moves == [Axes -> (-MaxMove)..MaxMove]

MaxEdge == 1

Edges == [Axes -> (-MaxEdge)..MaxEdge]

\* The quad's plane is a coordinate plane: its normal lies along one axis.
QuadOnLattice(u, v) == Cardinality({i \in Axes : Cross(u, v)[i] # 0}) = 1

(***************************************************************************)
(* Scene: the builder operations.                                          *)
(***************************************************************************)
Scene_new ==
    /\ objects = <<>>
    /\ lights = <<>>
    /\ bvh = NoneVal
    /\ background = "BLACK"

\* No query, constructor or hit test has been made.
IdleQueries ==
    /\ node = NoneVal /\ ray = NoneVal /\ ray_t = NoneVal
    /\ hit_bvh = NoneVal /\ hit_lin = NoneVal
    /\ box0 = NoneVal /\ box1 = NoneVal /\ sbox = NoneVal /\ shape = NoneVal
    /\ hit = NoneVal /\ coord_a = NoneVal /\ coord_b = NoneVal
    /\ rec_in = NoneVal /\ accepted = NoneVal
    /\ pos = NoneVal /\ shutter_time = NoneVal /\ light_terms = NoneVal

\* No call of trace_ray is running.
IdleTrace ==
    /\ max_bounces = 0 /\ stack = <<>> /\ returned = NoneVal
    /\ added = NoneVal /\ result = NoneVal

\* No call of get_color is running.
IdlePixel ==
    /\ col = 0 /\ row = 0 /\ cell = NoneVal
    /\ pixel_color = 0 /\ traced = 0 /\ accepted_n = 0 /\ cells = {}
    /\ sample_st = NoneVal /\ pixel = NoneVal

\* No material has been made.
IdleMaterial == material = NoneVal /\ scatter_f = NoneVal

\* No call of sample is running.
IdleRows ==
    /\ task = <<>> /\ draws = {}
    /\ colors = NoneVal /\ buffer = <<>> /\ pb = NoneVal

Idle ==
    /\ IdleQueries
    /\ IdleTrace
    /\ iterations = 0 /\ width = 0 /\ height = 0
    /\ IdlePixel
    /\ IdleMaterial
    /\ IdleRows

\* The operation just performed, and whether the one before it was build_bvh.
Op(name) == lastOp' = name /\ prevBuild' = (lastOp = "build_bvh")

Init ==
    /\ Scene_new
    /\ lastOp = "new"
    /\ prevBuild = FALSE
    /\ Idle

Scene_background(color) ==
    /\ background' = color
    /\ Op("background")
    /\ UNCHANGED <<objects, lights, bvh, queryVars, geomVars, otherVars>>

Scene_with_obj(obj) ==
    /\ Len(objects) < MaxObjs
    /\ objects' = Append(objects, obj)
    /\ Op("with_obj")
    /\ UNCHANGED <<lights, background, bvh, queryVars, geomVars, otherVars>>

Scene_with_obj_list(obj_list) ==
    /\ Len(objects) + Len(obj_list) <= MaxObjs
    /\ objects' = objects \o obj_list
    /\ Op("with_obj_list")
    /\ UNCHANGED <<lights, background, bvh, queryVars, geomVars, otherVars>>

Scene_with_light(light) ==
    /\ Len(lights) < MaxLights
    /\ lights' = Append(lights, light)
    /\ Op("with_light")
    /\ UNCHANGED <<objects, background, bvh, queryVars, geomVars, otherVars>>

Scene_with_lights(light_list) ==
    /\ Len(lights) + Len(light_list) <= MaxLights
    /\ lights' = lights \o light_list
    /\ Op("with_lights")
    /\ UNCHANGED <<objects, background, bvh, queryVars, geomVars, otherVars>>

\* Faulty variant of build_bvh: the object list is moved into the build.
Scene_build_bvh_take ==
    /\ bvh' = IF objects = <<>> THEN NoneVal ELSE BvhNode_build(objects)
    /\ objects' = <<>>
    /\ Op("build_bvh")
    /\ UNCHANGED <<lights, background, queryVars, geomVars, otherVars>>

\* Faulty variant of build_bvh: no guard for the empty list.
Scene_build_bvh_unguarded ==
    /\ bvh' = BvhNode_build(objects)
    /\ Op("build_bvh")
    /\ UNCHANGED <<objects, lights, background, queryVars, geomVars, otherVars>>

Scene_build_bvh ==
    /\ bvh' = IF objects = <<>> THEN NoneVal ELSE BvhNode_build(objects)
    /\ Op("build_bvh")
    /\ UNCHANGED <<objects, lights, background, queryVars, geomVars, otherVars>>

Next ==
    \/ \E color \in Colors : Scene_background(color)
    \/ \E obj \in ObjectIds : Scene_with_obj(obj)
    \/ \E obj_list \in SeqsOf(ObjectIds, 0, 2) : Scene_with_obj_list(obj_list)
    \/ \E light \in LightKinds : Scene_with_light(light)
    \/ \E light_list \in SeqsOf(LightKinds, 0, 1) : Scene_with_lights(light_list)
    \/ Scene_build_bvh

Spec == Init /\ [][Next]_vars

(***************************************************************************)
(* BvhNode::build called on its own, on any list of objects.               *)
(***************************************************************************)
ObjLists == SeqsOf(ObjectIds, 0, MaxObjs)

InitBuild ==
    /\ objects \in ObjLists
    /\ lights = <<>> /\ background = "BLACK" /\ bvh = NoneVal
    /\ lastOp = "new" /\ prevBuild = FALSE
    /\ Idle

Build ==
    /\ lastOp = "new"
    /\ node' = BvhNode_build(objects)
    /\ Op("build")
    /\ UNCHANGED <<sceneVars, ray, ray_t, hit_bvh, hit_lin, geomVars, otherVars>>

NextBuild == Build

SpecBuild == InitBuild /\ [][NextBuild]_vars

(***************************************************************************)
(* Nearest-hit queries on a scene whose BVH has been built: the same ray   *)
(* and interval answered through the BVH and by the linear scan.           *)
(***************************************************************************)
InitTrace ==
    /\ objects \in ObjLists \ {<<>>}
    /\ bvh = BvhNode_build(objects)
    /\ lights = <<>> /\ background = "BLACK"
    /\ lastOp = "build_bvh" /\ prevBuild = FALSE
    /\ Idle

Intersect(r, iv) ==
    /\ lastOp = "build_bvh"
    /\ RayExact(objects, r)
    /\ ray' = r
    /\ ray_t' = iv
    /\ hit_bvh' = Renderer_intersect(objects, bvh, r, iv)
    /\ hit_lin' = Renderer_intersect(objects, NoneVal, r, iv)
    /\ Op("intersect")
    /\ UNCHANGED <<sceneVars, node, geomVars, otherVars>>

NextTrace == lastOp = "build_bvh" /\ \E r \in Rays, iv \in Intervals : Intersect(r, iv)

SpecTrace == InitTrace /\ [][NextTrace]_vars

(***************************************************************************)
(* The constructors of boxes and shapes, on any arguments.                 *)
(***************************************************************************)
ValidBoxes == {b \in Boxes : \A i \in Axes : b.min[i] <= b.max[i]}

SurroundingBox(b0, b1) ==
    /\ lastOp = "new"
    /\ box0' = b0
    /\ box1' = b1
    /\ sbox' = Aabb_surrounding_box(b0, b1)
    /\ shape' = NoneVal
    /\ Op("surrounding_box")
    /\ UNCHANGED <<sceneVars, queryVars, otherVars>>

NewSphere(center_from, center_to, radius) ==
    /\ lastOp = "new"
    /\ shape' = Sphere_new(center_from, center_to, radius)
    /\ box0' = NoneVal /\ box1' = NoneVal /\ sbox' = NoneVal
    /\ Op("sphere_new")
    /\ UNCHANGED <<sceneVars, queryVars, otherVars>>

NewQuad(origin, u, v) ==
    /\ lastOp = "new"
    /\ QuadOnLattice(u, v)
    /\ shape' = Quad_new(origin, u, v)
    /\ box0' = NoneVal /\ box1' = NoneVal /\ sbox' = NoneVal
    /\ Op("quad_new")
    /\ UNCHANGED <<sceneVars, queryVars, otherVars>>

NextGeom ==
    /\ lastOp = "new"
    /\ \/ \E b0 \in ValidBoxes, b1 \in ValidBoxes : SurroundingBox(b0, b1)
       \/ \E c \in Points, m \in Moves, radius \in Radii : NewSphere(c, VAdd(c, m), radius)
       \/ \E c \in Points, radius \in Radii : NewSphere(c, NoneVal, radius)
       \/ \E origin \in Points, u \in Edges, v \in Edges : NewQuad(origin, u, v)

SpecGeom == Init /\ [][NextGeom]_vars

(***************************************************************************)
(* One shape asked for its hit, and Quad::is_interior on its own.          *)
(***************************************************************************)
Transforms == {Mat4_from_translation(<<1, 0, 0>>),
               Mat4_from_axis_quarter_turn(2),
               Mat4_from_axis_quarter_turn(1),
               Mat4_from_scale(<<1, 1, -1>>)}

HitShapes ==
    {Catalogue[i] : i \in 1..Len(Catalogue)}
    \cup {Sphere_new(<<0, 0, 0>>, NoneVal, radius) : radius \in {0, 2, -2}}
    \cup {Transformed_new(Catalogue[i], m) : i \in 1..3, m \in Transforms}

CoordDen == 100

LocalCoords == {Rat(n, CoordDen) : n \in {-1, 0, 1, 50, 99, 100, 101}}

RecordsIn == {HitRecord_default,
              [HitRecord_default EXCEPT !.u = Rat(1, 4), !.v = Rat(3, 4), !.t = 2]}

ShapeIntersect(sh, r, iv) ==
    /\ lastOp = "new"
    /\ Hittable_exact(sh, r)
    /\ shape' = sh
    /\ ray' = r
    /\ ray_t' = iv
    /\ hit' = Hittable_intersect(sh, r, iv)
    /\ Op("shape_intersect")
    /\ UNCHANGED <<sceneVars, node, hit_bvh, hit_lin, box0, box1, sbox,
                   coord_a, coord_b, rec_in, accepted,
                   traceVars, lightVars, pixelVars, rowVars, matVars>>

IsInterior(a, b, rec0) ==
    /\ lastOp = "new"
    /\ coord_a' = a
    /\ coord_b' = b
    /\ rec_in' = rec0
    /\ accepted' = Quad_is_interior(a, b, rec0)[1]
    /\ hit' = Quad_is_interior(a, b, rec0)[2]
    /\ Op("is_interior")
    /\ UNCHANGED <<sceneVars, queryVars, geomVars, traceVars, lightVars, pixelVars, rowVars, matVars>>

NextShape ==
    /\ lastOp = "new"
    /\ \/ \E sh \in HitShapes, r \in Rays, iv \in Intervals : ShapeIntersect(sh, r, iv)
       \/ \E a \in LocalCoords, b \in LocalCoords, rec0 \in RecordsIn : IsInterior(a, b, rec0)

SpecShape == Init /\ [][NextShape]_vars

(***************************************************************************)
(* Renderer::trace_ray.  Each activation of the function is a frame of     *)
(* `stack`; the top frame is the one running.  Radiance is one channel of  *)
(* a Color.  Whether the ray hits, what the surface emits and receives     *)
(* from the lights, whether the material scatters and with what weight     *)
(* 1/pdf * f * |n.l| depend on the scene and on the random draws: they are *)
(* the inputs of the steps.                                                *)
(***************************************************************************)
MaxBounces == 2

\* The cap of one indirect contribution.
IndirectCap == 100

Color_channel(c) == IF c = "BLACK" THEN 0 ELSE 1

\* emittance * color + sample_lights(..) of a hit.
DirectRadiance == {0, 40}

\* 1.0 / pdf * f * |n . l| of a scattered direction.
Weights == {-1, 0, 1, 3, PosInf, NaN}

Frame(num_bounces) ==
    [num_bounces |-> num_bounces, pc |-> "enter", color |-> 0, weight |-> 0]

Top == stack[Len(stack)]

\* Faulty variant of the recursive call: the bounce budget is passed on whole.
Renderer_recursive_bounces_same(num_bounces) == num_bounces

\* The bounce budget handed to the recursive call.
Renderer_recursive_bounces(num_bounces) == num_bounces - 1

\* Faulty variant of the firefly guard: a finite contribution is added whole.
Renderer_indirect_added_uncapped(indirect) ==
    IF IsFinite(indirect) THEN [kind |-> "Some", value |-> indirect] ELSE NoneVal

\* What `color += ..` receives from one indirect estimate, if anything.
Renderer_indirect_added(indirect) ==
    IF IsFinite(indirect)
    THEN [kind |-> "Some", value |-> FMin(indirect, IndirectCap)]
    ELSE NoneVal

\* The running activation returns `value`: the caller, if there is one,
\* resumes after its recursive call and finishes its own colour.
Return(value) ==
    /\ returned' = [num_bounces |-> Top.num_bounces, value |-> value]
    /\ IF Len(stack) = 1
       THEN /\ stack' = <<>>
            /\ result' = [kind |-> "Some", value |-> value]
            /\ added' = added
       ELSE LET caller == stack[Len(stack) - 1]
                indirect == FTimes(caller.weight, value)
                contribution == Renderer_indirect_added(indirect)
            IN /\ stack' = Append(SubSeq(stack, 1, Len(stack) - 2),
                                  [caller EXCEPT !.pc = "exit",
                                                 !.color = IF contribution = NoneVal THEN @
                                                           ELSE @ + contribution.value])
               /\ added' = [indirect |-> indirect, contribution |-> contribution]
               /\ result' = result

TraceUnchanged ==
    UNCHANGED <<sceneVars, queryVars, geomVars, hitVars, max_bounces,
                lightVars, pixelVars, rowVars, matVars>>

\* num_bounces == 0: black.
TraceBlack ==
    /\ stack # <<>> /\ Top.pc = "enter"
    /\ Top.num_bounces = 0
    /\ Return(0)
    /\ Op("trace_black")
    /\ TraceUnchanged

\* The ray leaves the scene: the background.
TraceMiss ==
    /\ stack # <<>> /\ Top.pc = "enter"
    /\ Top.num_bounces # 0
    /\ Return(Color_channel(background))
    /\ Op("trace_miss")
    /\ TraceUnchanged

\* A hit: the emitted and the direct light of the surface make the colour.
TraceHit(direct) ==
    /\ stack # <<>> /\ Top.pc = "enter"
    /\ Top.num_bounces # 0
    /\ stack' = Append(SubSeq(stack, 1, Len(stack) - 1),
                       [Top EXCEPT !.pc = "lit", !.color = direct])
    /\ Op("trace_hit")
    /\ UNCHANGED <<returned, added, result>>
    /\ TraceUnchanged

\* Material::scatter: the branch that random_bool and `transparent` select;
\* the transmission branch gives no direction when sin2_l > 1.
Material_scatter(transparent, specular, sin2_l) ==
    IF specular THEN [kind |-> "Some", branch |-> "specular"]
    ELSE IF ~transparent THEN [kind |-> "Some", branch |-> "diffuse"]
    ELSE IF sin2_l.num > sin2_l.den THEN NoneVal
    ELSE [kind |-> "Some", branch |-> "transmit"]

\* Faulty variant of the hit without scattered direction: the colour
\* gathered so far is dropped.
TraceAbsorb_returns_black(transparent, specular, sin2_l) ==
    /\ stack # <<>> /\ Top.pc = "lit"
    /\ Material_scatter(transparent, specular, sin2_l) = NoneVal
    /\ Return(0)
    /\ Op("trace_absorb")
    /\ TraceUnchanged

\* scatter returns None: the colour is returned as it is.
TraceAbsorb(transparent, specular, sin2_l) ==
    /\ stack # <<>> /\ Top.pc = "lit"
    /\ Material_scatter(transparent, specular, sin2_l) = NoneVal
    /\ Return(Top.color)
    /\ Op("trace_absorb")
    /\ TraceUnchanged

\* scatter returns a direction: the recursive call.
TraceScatter(transparent, specular, sin2_l, weight) ==
    /\ stack # <<>> /\ Top.pc = "lit"
    /\ Material_scatter(transparent, specular, sin2_l) # NoneVal
    /\ Len(stack) <= MaxBounces + 1
    /\ stack' = Append(SubSeq(stack, 1, Len(stack) - 1),
                       [Top EXCEPT !.pc = "await", !.weight = weight])
                 \o <<Frame(Renderer_recursive_bounces(Top.num_bounces))>>
    /\ Op("trace_scatter")
    /\ UNCHANGED <<returned, added, result>>
    /\ TraceUnchanged

\* The activation that has added its indirect light returns its colour.
TraceExit ==
    /\ stack # <<>> /\ Top.pc = "exit"
    /\ Return(Top.color)
    /\ Op("trace_exit")
    /\ TraceUnchanged

InitPath ==
    /\ objects = <<>> /\ lights = <<>> /\ bvh = NoneVal
    /\ background \in Colors
    /\ lastOp = "new" /\ prevBuild = FALSE
    /\ IdleQueries
    /\ iterations = 0 /\ width = 0 /\ height = 0
    /\ IdlePixel
    /\ IdleMaterial
    /\ IdleRows
    /\ max_bounces \in 0..MaxBounces
    /\ stack = <<Frame(max_bounces)>>
    /\ returned = NoneVal /\ added = NoneVal /\ result = NoneVal

\* sin2_l of the transmission branch.
Sin2 == {Rat(n, 2) : n \in 0..3}

NextPath ==
    \/ TraceBlack
    \/ TraceMiss
    \/ \E direct \in DirectRadiance : TraceHit(direct)
    \/ \E transparent \in BOOLEAN, specular \in BOOLEAN, sin2_l \in Sin2 :
          TraceAbsorb(transparent, specular, sin2_l)
    \/ \E transparent \in BOOLEAN, specular \in BOOLEAN, sin2_l \in Sin2, weight \in Weights :
          TraceScatter(transparent, specular, sin2_l, weight)
    \/ TraceExit

\* The thread running trace_ray keeps running it.
SpecPath == InitPath /\ [][NextPath]_vars /\ WF_vars(NextPath)

(***************************************************************************)
(* Light::illuminate and Renderer::sample_lights.  One lattice step is the *)
(* renderer's shadow epsilon (1e-3).  A light is a record of its variant;  *)
(* an Object light carries the point that its shape's sampler returned.    *)
(***************************************************************************)
ShadowEps == 1

Light_Ambient == [kind |-> "Ambient"]

Light_Directional(dir) == [kind |-> "Directional", dir |-> dir]

Light_Point(loc) == [kind |-> "Point", loc |-> loc]

Light_Object(p) == [kind |-> "Object", loc |-> p]

\* The direction from `p` to the light and the distance to it.
Light_illuminate(light, p) ==
    IF light.kind = "Ambient" THEN [ray_light |-> VZero, t_micro |-> 0]
    ELSE IF light.kind = "Directional" THEN [ray_light |-> VNeg(light.dir), t_micro |-> PosInf]
    ELSE LET disp == VSub(light.loc, p)
             len == Length(disp)
         IN [ray_light |-> [i \in Axes |-> FDiv(disp[i], len)], t_micro |-> len]

\* The part of one light in color_from_lights: whether a shadow ray was
\* traced for it, along which ray and interval, and whether its term was
\* added.
Renderer_light_term(scene_objects, scene_bvh, light, p, time) ==
    IF light.kind = "Ambient"
    THEN [queried |-> FALSE, ray |-> NoneVal, ray_t |-> NoneVal, added |-> TRUE]
    ELSE LET il == Light_illuminate(light, p)
             shadow_ray == Ray_new(p, il.ray_light, time)
             iv == Interval_new(ShadowEps, FPlus(il.t_micro, -ShadowEps))
             close_hit == Renderer_intersect(scene_objects, scene_bvh, shadow_ray, iv)
         IN [queried |-> TRUE, ray |-> shadow_ray, ray_t |-> iv,
             added |-> (close_hit = NoneVal)]

Renderer_sample_lights(scene_objects, scene_bvh, scene_lights, p, time) ==
    [i \in 1..Len(scene_lights) |->
        Renderer_light_term(scene_objects, scene_bvh, scene_lights[i], p, time)]

AxisPoints == {<<0, 0, z>> : z \in -3..5}

Lights == {Light_Ambient}
          \cup {Light_Directional(d) : d \in {<<0, 0, 1>>, <<0, 0, -1>>}}
          \cup {Light_Point(loc) : loc \in AxisPoints}
          \cup {Light_Object(p) : p \in AxisPoints}

LightScenes == SeqsOf(ObjectIds, 0, 2)

\* The light is not at the shaded point, lies along a coordinate axis from
\* it, and every shape answers the shadow ray on the lattice.
LightExact(objs, light, p, time) ==
    IF light.kind = "Ambient" THEN TRUE
    ELSE IF light.kind = "Directional"
    THEN RayExact(objs, Ray_new(p, VNeg(light.dir), time))
    ELSE IF Cardinality({i \in Axes : light.loc[i] # p[i]}) # 1 THEN FALSE
    ELSE RayExact(objs, Ray_new(p, Light_illuminate(light, p).ray_light, time))

InitLights ==
    /\ objects \in LightScenes
    /\ bvh \in {NoneVal} \cup (IF objects = <<>> THEN {} ELSE {BvhNode_build(objects)})
    /\ lights \in SeqsOf(Lights, 1, MaxLights)
    /\ background = "BLACK"
    /\ lastOp = "scene" /\ prevBuild = FALSE
    /\ Idle

SampleLights(p, time) ==
    /\ lastOp = "scene"
    /\ \A i \in 1..Len(lights) : LightExact(objects, lights[i], p, time)
    /\ pos' = p
    /\ shutter_time' = time
    /\ light_terms' = Renderer_sample_lights(objects, bvh, lights, p, time)
    /\ Op("sample_lights")
    /\ UNCHANGED <<sceneVars, queryVars, geomVars, hitVars, traceVars, pixelVars, rowVars, matVars>>

NextLights == lastOp = "scene" /\ \E p \in AxisPoints, time \in RayTimes : SampleLights(p, time)

SpecLights == InitLights /\ [][NextLights]_vars

(***************************************************************************)
(* Renderer::get_color.  The two nested loops advance one sample at a      *)
(* step; `cell` is the position <<y, x>> of the loops.  The jitter draws   *)
(* and the radiance trace_ray returns for the sample are the inputs of a   *)
(* step.  Image-plane coordinates are fractions.                           *)
(***************************************************************************)
MaxIterations == 5

ImageWidth == 2

ImageHeight == 2

\* Values of random(), which lies in [0, 1).
Jitters == {Rat(0, 2), Rat(1, 2)}

\* Values of one channel of trace_ray's result.
SampleColors == {0, 1, 3, PosInf, NaN}

\* (iterations as f32).sqrt() as u32
Renderer_iter_sqrt(n) == ISqrt(n)

\* (index + (k + jitter) / iter_sqrt) / extent
Renderer_film_coord(index, k, jitter, iter_sqrt, extent) ==
    Rat(index * iter_sqrt * jitter.den + k * jitter.den + jitter.num,
        iter_sqrt * jitter.den * extent)

\* pixel_color / iterations as f32: a fraction, or what f32 gives for a
\* division by zero.
Renderer_pixel_average(sum, n) ==
    IF n # 0 THEN [class |-> "finite", num |-> sum, den |-> n]
    ELSE IF sum = 0 THEN [class |-> "NaN", num |-> 0, den |-> 0]
    ELSE [class |-> "infinite", num |-> sum, den |-> 0]

PixelUnchanged ==
    UNCHANGED <<sceneVars, queryVars, geomVars, hitVars, traceVars, lightVars,
                iterations, col, row, width, height, task, draws, colors, buffer, pb,
                matVars>>

InitPixel ==
    /\ objects = <<>> /\ lights = <<>> /\ bvh = NoneVal /\ background = "BLACK"
    /\ lastOp = "new" /\ prevBuild = FALSE
    /\ IdleQueries
    /\ IdleTrace
    /\ iterations \in 0..MaxIterations
    /\ width = ImageWidth /\ height = ImageHeight
    /\ col \in 0..(ImageWidth - 1) /\ row \in 0..(ImageHeight - 1)
    /\ cell = [y |-> 0, x |-> 0]
    /\ pixel_color = 0 /\ traced = 0 /\ accepted_n = 0 /\ cells = {}
    /\ sample_st = NoneVal /\ pixel = NoneVal
    /\ IdleMaterial
    /\ IdleRows

\* One pass of the inner loop body.
GetColorSample(jitter_s, jitter_t, sample_color) ==
    LET iter_sqrt == Renderer_iter_sqrt(iterations)
    IN /\ pixel = NoneVal
       /\ cell.y < iter_sqrt
       /\ sample_st' = [s |-> Renderer_film_coord(col, cell.x, jitter_s, iter_sqrt, width),
                        t |-> Renderer_film_coord(row, cell.y, jitter_t, iter_sqrt, height)]
       /\ pixel_color' = IF IsFinite(sample_color) THEN pixel_color + sample_color
                         ELSE pixel_color
       /\ accepted_n' = IF IsFinite(sample_color) THEN accepted_n + 1 ELSE accepted_n
       /\ traced' = traced + 1
       /\ cells' = cells \cup {<<cell.x, cell.y>>}
       /\ cell' = IF cell.x + 1 < iter_sqrt THEN [cell EXCEPT !.x = @ + 1]
                  ELSE [y |-> cell.y + 1, x |-> 0]
       /\ Op("sample")
       /\ UNCHANGED pixel
       /\ PixelUnchanged

\* The loops are over: the pixel is the sum over `iterations`.
GetColorReturn ==
    /\ pixel = NoneVal
    /\ cell.y >= Renderer_iter_sqrt(iterations)
    /\ pixel' = [kind |-> "Some", value |-> Renderer_pixel_average(pixel_color, iterations)]
    /\ Op("get_color")
    /\ UNCHANGED <<cell, pixel_color, traced, accepted_n, cells, sample_st>>
    /\ PixelUnchanged

NextPixel ==
    \/ \E jitter_s \in Jitters, jitter_t \in Jitters, sample_color \in SampleColors :
          GetColorSample(jitter_s, jitter_t, sample_color)
    \/ GetColorReturn

SpecPixel == InitPixel /\ [][NextPixel]_vars

(***************************************************************************)
(* Renderer::sample.  The rows of the image are tasks of the thread pool;  *)
(* a worker thread runs one row task at a time, from the creation of the   *)
(* row's generator to the return of its pixels.  A pixel is named by its   *)
(* column and row.  A random draw is recorded with the row that made it,   *)
(* what it was for and the generator it came from: the StdRng the row      *)
(* created, or the generator of the worker thread behind random().         *)
(***************************************************************************)
NumWorkers == 2

Workers == 1..NumWorkers

Rows == 0..(height - 1)

Pixel(c, r) == [col |-> c, row |-> r]

StdRng(r) == [kind |-> "StdRng", row |-> r]

ThreadRng(w) == [kind |-> "ThreadRng", worker |-> w]

Draw(r, purpose, gen) == [row |-> r, purpose |-> purpose, gen |-> gen]

\* What get_color's samples meet: nothing, or a surface lit by no Object
\* light, by a sphere light or by a quad light.
Paths == {"miss", "hit", "hit_sphere_light", "hit_quad_light"}

\* The draws of one call of get_color made by row r on worker w.
Renderer_get_color_draws(r, w, rng, n, path) ==
    IF Renderer_iter_sqrt(n) = 0 THEN {}
    ELSE {Draw(r, "jitter", ThreadRng(w)), Draw(r, "camera", rng)}
         \cup (IF path = "miss" THEN {} ELSE {Draw(r, "scatter", rng)})
         \cup (IF path = "hit_sphere_light" THEN {Draw(r, "light", rng)} ELSE {})
         \cup (IF path = "hit_quad_light" THEN {Draw(r, "light", ThreadRng(w))} ELSE {})

\* Faulty variant of the collection of the rows: a finished row takes the
\* first free place.
Renderer_collect_first_free(rows, r, row_pixels) ==
    LET free == CHOOSE i \in 1..Len(rows) :
                    rows[i] = NoneVal /\ \A j \in 1..(i - 1) : rows[j] # NoneVal
    IN [rows EXCEPT ![free] = row_pixels]

\* into_par_iter().map(..).collect(): the result of row r is the element
\* r of the vector.
Renderer_collect(rows, r, row_pixels) == [rows EXCEPT ![r + 1] = row_pixels]

\* Buffer::extend: the rows are appended in their order.
Buffer_extend(buf, rows) == buf \o rows

\* ProgressBar::inc on the optional progress bar.
ProgressBar_inc(bar, delta) ==
    IF bar = NoneVal THEN NoneVal ELSE [bar EXCEPT !.position = @ + delta]

ProgressBar_finish(bar) ==
    IF bar = NoneVal THEN NoneVal ELSE [bar EXCEPT !.finished = TRUE]

RowsUnchanged ==
    UNCHANGED <<sceneVars, queryVars, geomVars, hitVars, traceVars, lightVars,
                pixelVars, matVars, width, height>>

InitRows ==
    /\ objects = <<>> /\ lights = <<>> /\ bvh = NoneVal /\ background = "BLACK"
    /\ lastOp = "new" /\ prevBuild = FALSE
    /\ IdleQueries
    /\ IdleTrace
    /\ IdlePixel
    /\ IdleMaterial
    /\ iterations \in {0, 1}
    /\ width = ImageWidth /\ height = ImageHeight
    /\ task = [r \in Rows |-> [state |-> "queued", worker |-> 0, next_col |-> 0,
                                row_pixels |-> <<>>, rng |-> NoneVal,
                                 progress |-> FALSE, place |-> 0]]
    /\ draws = {}
    /\ colors = [i \in 1..height |-> NoneVal]
    /\ buffer = <<>>
    /\ pb \in {NoneVal, [position |-> 0, finished |-> FALSE]}

\* A free worker takes row r and creates the row's generator.
RowStart(r, w) ==
    /\ task[r].state = "queued"
    /\ \A q \in Rows : ~(task[q].state = "running" /\ task[q].worker = w)
    /\ task' = [task EXCEPT ![r] = [@ EXCEPT !.state = "running", !.worker = w,
                                             !.rng = StdRng(r)]]
    /\ Op("row_start")
    /\ UNCHANGED <<draws, colors, buffer, pb>>
    /\ RowsUnchanged

\* Faulty variant of the row's pixel: the task drops the BVH of the scene
\* it renders.
RowPixel_drops_bvh(r, path) ==
    /\ task[r].state = "running"
    /\ task[r].next_col < width
    /\ task' = [task EXCEPT ![r] = [@ EXCEPT !.next_col = @ + 1,
                                             !.row_pixels = Append(@, Pixel(task[r].next_col, r))]]
    /\ draws' = draws \cup Renderer_get_color_draws(r, task[r].worker, task[r].rng,
                                                    iterations, path)
    /\ bvh' = NoneVal
    /\ Op("row_pixel")
    /\ UNCHANGED <<colors, buffer, pb>>
    /\ UNCHANGED <<objects, lights, background, queryVars, geomVars, hitVars,
                   traceVars, lightVars, pixelVars, matVars, width, height>>

\* The next pixel of row r: one call of get_color.
RowPixel(r, path) ==
    /\ task[r].state = "running"
    /\ task[r].next_col < width
    /\ task' = [task EXCEPT ![r] = [@ EXCEPT !.next_col = @ + 1,
                                             !.row_pixels = Append(@, Pixel(task[r].next_col, r))]]
    /\ draws' = draws \cup Renderer_get_color_draws(r, task[r].worker, task[r].rng,
                                                    iterations, path)
    /\ Op("row_pixel")
    /\ UNCHANGED <<colors, buffer, pb>>
    /\ RowsUnchanged

\* The number of rows that have returned.
Finished == Cardinality({q \in Rows : task[q].state = "done"})

\* Faulty variant of the progress update: the row reports itself as soon
\* as it runs.
RowProgress_before_pixels(r) ==
    /\ task[r].state = "running"
    /\ ~task[r].progress
    /\ pb' = ProgressBar_inc(pb, 1)
    /\ task' = [task EXCEPT ![r] = [@ EXCEPT !.progress = TRUE]]
    /\ Op("row_progress")
    /\ UNCHANGED <<draws, colors, buffer>>
    /\ RowsUnchanged

\* The pixels of row r are computed: the progress bar, if there is one,
\* advances by one.
RowProgress(r) ==
    /\ task[r].state = "running"
    /\ task[r].next_col = width
    /\ ~task[r].progress
    /\ pb' = ProgressBar_inc(pb, 1)
    /\ task' = [task EXCEPT ![r] = [@ EXCEPT !.progress = TRUE]]
    /\ Op("row_progress")
    /\ UNCHANGED <<draws, colors, buffer>>
    /\ RowsUnchanged

\* Row r returns its pixels; `place` keeps the rank of the row among the
\* completions.
RowFinish(r) ==
    /\ task[r].state = "running"
    /\ task[r].next_col = width
    /\ task[r].progress
    /\ colors' = Renderer_collect(colors, r, task[r].row_pixels)
    /\ task' = [task EXCEPT ![r] = [@ EXCEPT !.state = "done",
                                             !.place = Finished + 1]]
    /\ Op("row_finish")
    /\ UNCHANGED <<draws, buffer, pb>>
    /\ RowsUnchanged

\* Every row has returned: the rows go into the buffer.
SampleExtend ==
    /\ lastOp \notin {"sample", "finish"}
    /\ \A r \in Rows : task[r].state = "done"
    /\ buffer' = Buffer_extend(buffer, colors)
    /\ Op("sample")
    /\ UNCHANGED <<task, draws, colors, pb>>
    /\ RowsUnchanged

\* The end of sample: the progress bar, if there is one, is finished.
SampleFinish ==
    /\ lastOp = "sample"
    /\ pb' = ProgressBar_finish(pb)
    /\ Op("finish")
    /\ UNCHANGED <<task, draws, colors, buffer>>
    /\ RowsUnchanged

NextRows ==
    \/ \E r \in Rows, w \in Workers : RowStart(r, w)
    \/ \E r \in Rows, path \in Paths : RowPixel(r, path)
    \/ \E r \in Rows : RowProgress(r)
    \/ \E r \in Rows : RowFinish(r)
    \/ SampleExtend
    \/ SampleFinish

SpecRows == InitRows /\ [][NextRows]_vars

(***************************************************************************)
(* Renderer::render on a scene that has been built.  The renderer borrows  *)
(* the scene (&self): get_color, trace_ray and sample_lights read the      *)
(* object list, the light list, the background and the BVH to decide what  *)
(* a pixel's samples meet.                                                 *)
(***************************************************************************)
RenderScenes ==
    {[objects |-> <<>>, lights |-> <<>>, bvh |-> NoneVal, background |-> "BLACK"],
     [objects |-> <<1, 3>>, lights |-> <<Light_Ambient>>,
      bvh |-> NoneVal, background |-> "WHITE"],
     [objects |-> <<1, 3>>, lights |-> <<Light_Object(<<0, 0, 3>>)>>,
      bvh |-> BvhNode_build(<<1, 3>>), background |-> "WHITE"]}

\* What the samples of a pixel can meet in the scene: a ray of an empty
\* scene meets nothing; a light is sampled on a shape only if the scene has
\* an Object light.
Renderer_paths(scene_objects, scene_lights) ==
    {"miss"}
    \cup (IF scene_objects = <<>> THEN {} ELSE {"hit"})
    \cup (IF scene_objects # <<>>
             /\ \E i \in 1..Len(scene_lights) : scene_lights[i].kind = "Object"
          THEN {"hit_sphere_light", "hit_quad_light"} ELSE {})

InitRender ==
    /\ \E sc \in RenderScenes :
          /\ objects = sc.objects /\ lights = sc.lights
          /\ bvh = sc.bvh /\ background = sc.background
    /\ lastOp = "scene" /\ prevBuild = FALSE
    /\ IdleQueries
    /\ IdleTrace
    /\ IdlePixel
    /\ IdleMaterial
    /\ iterations \in {0, 1}
    /\ width = ImageWidth /\ height = ImageHeight
    /\ task = <<>> /\ draws = {} /\ colors = NoneVal /\ buffer = NoneVal
    /\ pb \in {NoneVal, [position |-> 0, finished |-> FALSE]}

\* render creates the buffer and sample queues one task for each row.
RenderBegin ==
    /\ lastOp = "scene"
    /\ buffer' = <<>>
    /\ task' = [r \in Rows |-> [state |-> "queued", worker |-> 0, next_col |-> 0,
                                 row_pixels |-> <<>>, rng |-> NoneVal,
                                 progress |-> FALSE, place |-> 0]]
    /\ colors' = [i \in 1..height |-> NoneVal]
    /\ Op("render")
    /\ UNCHANGED <<draws, pb>>
    /\ RowsUnchanged

NextRender ==
    \/ RenderBegin
    \/ lastOp # "scene" /\ \E r \in Rows, w \in Workers : RowStart(r, w)
    \/ lastOp # "scene" /\ \E r \in Rows, path \in Renderer_paths(objects, lights) :
                              RowPixel(r, path)
    \/ lastOp # "scene" /\ \E r \in Rows : RowProgress(r)
    \/ lastOp # "scene" /\ \E r \in Rows : RowFinish(r)
    \/ lastOp # "scene" /\ SampleExtend
    \/ lastOp # "scene" /\ SampleFinish

SpecRender == InitRender /\ [][NextRender]_vars

(***************************************************************************)
(* Material: the constructors and the probability with which scatter       *)
(* selects the specular branch.  A colour channel is a number of           *)
(* 1/ColorDen, an index of refraction and a roughness a number of          *)
(* 1/IndexDen; the offset that `base` adds to the index is one unit, which *)
(* like 1e-6 keeps the reflectance of index 1 below the threshold of       *)
(* scatter.  Probabilities are exact fractions in lowest terms.            *)
(***************************************************************************)
ColorDen == 10

IndexDen == 100

IndexOffset == 1

RECURSIVE Gcd(_, _)
Gcd(a, b) == IF b = 0 THEN a ELSE Gcd(b, a % b)

\* The fraction n / d, d > 0, in lowest terms.
Frac(n, d) ==
    LET g == Gcd(Abs(n), d)
    IN Rat(n \div g, d \div g)

FracAdd(x, y) ==
    LET l == (x.den \div Gcd(x.den, y.den)) * y.den
    IN Frac(x.num * (l \div x.den) + y.num * (l \div y.den), l)

FracNeg(x) == Rat(-x.num, x.den)

FracMul(x, y) ==
    LET a == Frac(x.num, y.den)
        b == Frac(y.num, x.den)
    IN Frac(a.num * b.num, a.den * b.den)

FracLess(x, y) == x.num * y.den < y.num * x.den

\* f32::lerp: self + (rhs - self) * s.
Frac_lerp(self, rhs, s) == FracAdd(self, FracMul(FracAdd(rhs, FracNeg(self)), s))

\* f32::clamp on the lattice.
Clamp(x, lo, hi) == IF x < lo THEN lo ELSE IF x > hi THEN hi ELSE x

WHITE == <<ColorDen, ColorDen, ColorDen>>

Material_base(index, roughness) ==
    [color |-> WHITE,
     roughness |-> Clamp(roughness, 1, IndexDen),
     metallic |-> 0,
     index |-> index + IndexOffset,
     emittance |-> 0,
     transparent |-> FALSE]

Material_specular(color, roughness) ==
    [Material_base(IndexDen, roughness) EXCEPT !.color = color]

Material_diffuse(color) ==
    [Material_base(IndexDen, IndexDen) EXCEPT !.color = color]

Material_clear(index, roughness) ==
    [Material_base(index, roughness) EXCEPT !.transparent = TRUE]

Material_metallic(color, roughness) ==
    [Material_base(IndexDen, roughness) EXCEPT !.color = color, !.metallic = 1]

Material_light(color, emittance) ==
    [Material_base(IndexDen, IndexDen) EXCEPT !.color = color, !.emittance = emittance]

Material_transparent(color, index, roughness) ==
    [Material_base(index, roughness) EXCEPT !.color = color, !.transparent = TRUE]

\* Rng::random_bool(p): a draw for p in [0, 1], a panic otherwise.
Rng_random_bool(p) ==
    IF FracLess(p, Rat(0, 1)) \/ FracLess(Rat(1, 1), p) THEN Panic
    ELSE [kind |-> "drawn"]

\* The first statements of scatter: the estimate of the specular
\* reflectance, the probability handed to random_bool, and what the call
\* of random_bool does.
Material_scatter_probability(m) ==
    LET ratio == Frac(m.index - IndexDen, m.index + IndexDen)
        f0 == FracMul(ratio, ratio)
        mean == Frac(m.color[1] + m.color[2] + m.color[3], 3 * ColorDen)
        estimate == Frac_lerp(f0, mean, Rat(m.metallic, 1))
        f == IF FracLess(Rat(1, 1000), estimate)
             THEN Frac_lerp(Rat(1, 5), Rat(1, 1), estimate)
             ELSE estimate
    IN [estimate |-> estimate, f |-> f, drawn |-> Rng_random_bool(f)]

MaterialColors ==
    {<<0, 0, 0>>, <<5, 2, 8>>, WHITE, <<ColorDen, ColorDen, ColorDen + 1>>,
     <<2 * ColorDen, 2 * ColorDen, 2 * ColorDen>>, <<-ColorDen, 0, 0>>}

MaterialIndices == {1, IndexDen, IndexDen + (IndexDen \div 2), 2 * IndexDen + (IndexDen \div 2)}

MaterialRoughness == {0, IndexDen \div 2, 2 * IndexDen}

Materials ==
    {Material_specular(c, ro) : c \in MaterialColors, ro \in MaterialRoughness}
    \cup {Material_diffuse(c) : c \in MaterialColors}
    \cup {Material_clear(i, ro) : i \in MaterialIndices, ro \in MaterialRoughness}
    \cup {Material_metallic(c, ro) : c \in MaterialColors, ro \in MaterialRoughness}
    \cup {Material_light(c, e) : c \in MaterialColors, e \in {0, 15}}
    \cup {Material_transparent(c, i, ro) : c \in MaterialColors, i \in MaterialIndices,
                                           ro \in MaterialRoughness}

\* A material is made by one of the constructors.
NewMaterial(m) ==
    /\ lastOp = "new"
    /\ material' = m
    /\ Op("material")
    /\ UNCHANGED scatter_f
    /\ UNCHANGED <<sceneVars, queryVars, geomVars, hitVars, traceVars, lightVars,
                   pixelVars, rowVars>>

\* scatter is called on the material.
Scatter ==
    /\ lastOp = "material"
    /\ scatter_f' = Material_scatter_probability(material)
    /\ Op("scatter")
    /\ UNCHANGED material
    /\ UNCHANGED <<sceneVars, queryVars, geomVars, hitVars, traceVars, lightVars,
                   pixelVars, rowVars>>

NextMaterial ==
    \/ lastOp = "new" /\ \E m \in Materials : NewMaterial(m)
    \/ Scatter

SpecMaterial == Init /\ [][NextMaterial]_vars

(***************************************************************************)
(* Properties                                                              *)
(***************************************************************************)
IsTree(n) == n.kind \in {"Leaf", "Node"}

\* The objects at the leaves of a tree, left to right.
RECURSIVE LeafSeq(_)
LeafSeq(n) ==
    IF n.kind = "Leaf" THEN <<n.object>>
    ELSE IF n.kind = "Node" THEN LeafSeq(n.left) \o LeafSeq(n.right)
    ELSE <<>>

\* The number of times each object occurs in a list.
BagOf(seq) == [o \in 1..Len(Catalogue) |-> Cardinality({i \in DOMAIN seq : seq[i] = o})]

\* All nodes of a tree.
RECURSIVE Nodes(_)
Nodes(n) ==
    IF n.kind = "Node" THEN {n} \cup Nodes(n.left) \cup Nodes(n.right)
    ELSE IF n.kind = "Leaf" THEN {n}
    ELSE {}

RootBox(b) == IF IsTree(b) THEN b.bbox ELSE NoneVal

\* C1: for every non-empty object list, ray and search interval, the tree
\* built from the list reports a hit exactly when the linear scan over the
\* same objects reports one, and both report the same ray parameter t.
C1_BvhMatchesLinearScan ==
    lastOp = "intersect" =>
        /\ (hit_bvh = NoneVal) <=> (hit_lin = NoneVal)
        /\ (hit_bvh # NoneVal /\ hit_lin # NoneVal) => hit_bvh.t = hit_lin.t

\* C2: for every internal node, ray and interval, the right subtree is
\* searched over [interval.min, t_left] when the left subtree hits at t_left,
\* no object below the node has a hit inside the interval with a strictly
\* smaller t than the hit the node returns, and the node returns no hit only
\* if no object below it is hit inside the interval.
C2_NodeReturnsClosest ==
    lastOp = "intersect" =>
        \A n \in {m \in Nodes(bvh) : m.kind = "Node"} :
            LET h == BvhNode_intersect(n, ray, ray_t)
                hit_left == BvhNode_intersect(n.left, ray, ray_t)
                below == {LeafSeq(n)[i] : i \in DOMAIN LeafSeq(n)}
            IN /\ hit_left # NoneVal =>
                      BvhNode_right_interval(hit_left, ray_t) = Interval_new(ray_t.min, hit_left.t)
               /\ h # NoneVal =>
                      \A o \in below :
                          LET oh == Object_intersect(o, ray, ray_t)
                          IN oh # NoneVal => h.t <= oh.t
               /\ h = NoneVal =>
                      \A o \in below : Object_intersect(o, ray, ray_t) = NoneVal

\* C3 (as stated): whenever scene.bvh is present, its leaves are exactly the
\* current contents of scene.objects.
C3_BvhIsCurrent ==
    bvh # NoneVal => BagOf(LeafSeq(bvh)) = BagOf(objects)

\* C3 (amended): whenever scene.bvh is present, it is the tree built from a
\* non-empty prefix of scene.objects, the list as it was at the last
\* build_bvh; objects added since are not in it.
C3_BvhFromPrefix ==
    bvh # NoneVal =>
        \E n \in 1..Len(objects) : bvh = BvhNode_build(SubSeq(objects, 1, n))

C3_StaleBvhReached ==
    /\ lastOp = "with_obj"
    /\ IsTree(bvh)
    /\ Len(LeafSeq(bvh)) < Len(objects)

\* C4 (as stated): build_bvh on a scene with no objects aborts.
C4_EmptyBuildAborts ==
    (lastOp = "build_bvh" /\ objects = <<>>) => bvh = Panic

\* C4 (amended): build_bvh on a scene with no objects does not abort; it
\* returns the scene with no BVH.
C4_EmptyBuildReturnsNoBvh ==
    (lastOp = "build_bvh" /\ objects = <<>>) => bvh = NoneVal

C4_EmptyBuildReached ==
    lastOp = "build_bvh" /\ objects = <<>> /\ bvh = NoneVal

\* C5: BvhNode::build called with zero objects panics and returns no node.
C5_BuildOfNothingPanics ==
    (lastOp = "build" /\ objects = <<>>) => (node = Panic /\ ~IsTree(node))

C5_BuildOfNothingReached ==
    lastOp = "build" /\ objects = <<>> /\ node = Panic

\* C6: in every tree returned by BvhNode::build, every internal node has two
\* children and the surrounding box of their boxes as its box, and every leaf
\* holds one object and has that object's box.
C6_TreeWellFormed ==
    (lastOp = "build" /\ IsTree(node)) =>
        \A n \in Nodes(node) :
            IF n.kind = "Node"
            THEN /\ DOMAIN n = {"kind", "left", "right", "bbox"}
                 /\ IsTree(n.left) /\ IsTree(n.right)
                 /\ n.bbox = Aabb_surrounding_box(n.left.bbox, n.right.bbox)
            ELSE /\ DOMAIN n = {"kind", "object", "bbox"}
                 /\ n.object \in ObjectIds
                 /\ n.bbox = Catalogue[n.object].aabb

C6_DeepTreeReached ==
    lastOp = "build" /\ node.kind = "Node" /\ node.right.kind = "Node"

\* C7: build_bvh on a non-empty list of n objects yields a tree with n leaves
\* holding each object of the list exactly once, and leaves scene.objects
\* unchanged in content and order.
C7_BuildKeepsObjects ==
    [][(lastOp' = "build_bvh" /\ objects # <<>>) =>
          /\ IsTree(bvh')
          /\ Len(LeafSeq(bvh')) = Len(objects)
          /\ BagOf(LeafSeq(bvh')) = BagOf(objects)
          /\ objects' = objects]_vars

C7_FullSceneBuilt ==
    /\ lastOp = "build_bvh"
    /\ Len(objects) = MaxObjs
    /\ bvh.kind = "Node"
    /\ LeafSeq(bvh) # objects

\* C8: build_bvh called twice in a row yields a tree with the same leaves
\* and the same root box as calling it once, and the same scene.objects.
C8_RebuildIdempotent ==
    [][(lastOp = "build_bvh" /\ lastOp' = "build_bvh") =>
          /\ BagOf(LeafSeq(bvh')) = BagOf(LeafSeq(bvh))
          /\ RootBox(bvh') = RootBox(bvh)
          /\ objects' = objects]_vars

C8_RebuiltReached ==
    prevBuild /\ lastOp = "build_bvh" /\ bvh.kind = "Node"

\* C9: for boxes A and B with min <= max on every axis, surrounding_box(A, B)
\* contains every corner of A and of B and is the smallest such box.
C9_SurroundingBoxIsMinimal ==
    lastOp = "surrounding_box" =>
        /\ \A c \in Corners(box0) \cup Corners(box1) : Aabb_contains(sbox, c)
        /\ \A i \in Axes :
              /\ \E c \in Corners(box0) \cup Corners(box1) : c[i] = sbox.min[i]
              /\ \E c \in Corners(box0) \cup Corners(box1) : c[i] = sbox.max[i]

C9_DisjointBoxesJoined ==
    /\ lastOp = "surrounding_box"
    /\ box0.max[1] < box1.min[1]
    /\ sbox # box0 /\ sbox # box1

TimeSteps == 4

\* C10: the box of a Sphere contains the ball of radius |radius| around
\* center(t) for every time t in [0, 1] (here t = k / TimeSteps), also for a
\* negative radius, and the box of a Quad contains its four corners.
C10_BoxContainsShape ==
    /\ lastOp = "sphere_new" =>
          \A k \in 0..TimeSteps, i \in Axes :
              LET c == TimeSteps * shape.center.ori[i] + k * shape.center.dir[i]
                  rad == TimeSteps * Abs(shape.radius)
              IN /\ TimeSteps * shape.aabb.min[i] <= c - rad
                 /\ c + rad <= TimeSteps * shape.aabb.max[i]
    /\ lastOp = "quad_new" =>
          \A c \in {shape.origin, VAdd(shape.origin, shape.u), VAdd(shape.origin, shape.v),
                    VAdd(VAdd(shape.origin, shape.u), shape.v)} :
              Aabb_contains(shape.aabb, c)

C10_MovingHollowSphereBuilt ==
    /\ lastOp = "sphere_new"
    /\ shape.radius < 0
    /\ shape.center.dir # VZero

\* C11: every hit a shape returns (Sphere, Quad, Transformed) carries a
\* normal that does not point along the incoming ray: direction . normal
\* <= 0, and < 0 whenever front_face is true.
C11_NormalOpposesRay ==
    (lastOp = "shape_intersect" /\ hit # NoneVal) =>
        LET d == FDot(ray.dir, hit.normal)
        IN /\ hit.front_face => FLt(d, 0)
           /\ FLe(d, 0)

\* The unit interval, stated on the fraction itself.
InUnitSquare(a, b) ==
    /\ 0 <= a.num /\ a.num <= a.den
    /\ 0 <= b.num /\ b.num <= b.den

\* C12: is_interior accepts (a, b) exactly when both lie in the closed
\* interval [0, 1]; it accepts (0,0), (1,1), (0.5,0.5) and rejects
\* (1.01,0.5), (-0.01,0.5); an accepted pair is stored as u, v of the
\* record and a rejected pair leaves the record as it was.
C12_IsInteriorClosedUnitSquare ==
    lastOp = "is_interior" =>
        /\ accepted = InUnitSquare(coord_a, coord_b)
        /\ <<coord_a.num, coord_b.num>> \in {<<0, 0>>, <<100, 100>>, <<50, 50>>} => accepted
        /\ <<coord_a.num, coord_b.num>> \in {<<101, 50>>, <<-1, 50>>} => ~accepted
        /\ accepted => hit = [rec_in EXCEPT !.u = coord_a, !.v = coord_b]
        /\ ~accepted => hit = rec_in

C12_CornerAccepted ==
    /\ lastOp = "is_interior" /\ accepted
    /\ coord_a = Rat(100, CoordDen) /\ coord_b = Rat(100, CoordDen)
    /\ rec_in.u = Rat(1, 4) /\ hit.u = coord_a /\ hit.v = coord_b

\* C13: the unit sphere at the origin, asked with the ray from (0,0,5)
\* along (0,0,-1) over (0, +inf), reports t = 4, p = (0,0,1),
\* normal = (0,0,1) and front_face = true.
C13_SphereAnalyticCase ==
    (/\ lastOp = "shape_intersect"
     /\ shape = Sphere_new(<<0, 0, 0>>, NoneVal, 1)
     /\ ray.ori = <<0, 0, 5>> /\ ray.dir = <<0, 0, -1>>
     /\ ray_t = Interval_new(0, PosInf)) =>
        /\ hit # NoneVal
        /\ hit.t = 4
        /\ hit.p = <<0, 0, 1>>
        /\ hit.normal = <<0, 0, 1>>
        /\ hit.front_face

C13_AnalyticCaseAsked ==
    /\ lastOp = "shape_intersect"
    /\ shape = Sphere_new(<<0, 0, 0>>, NoneVal, 1)
    /\ ray.ori = <<0, 0, 5>> /\ ray.dir = <<0, 0, -1>>
    /\ ray_t = Interval_new(0, PosInf)
    /\ hit # NoneVal

\* C14: trace_ray returns black when num_bounces is 0, every recursive
\* call receives num_bounces - 1, the number of nested recursive calls
\* never exceeds max_bounces, and the outermost call returns.
C14_FramesCountDown ==
    /\ Len(stack) - 1 <= max_bounces
    /\ \A i \in 1..Len(stack) : stack[i].num_bounces = max_bounces - (i - 1)
    /\ (returned # NoneVal /\ returned.num_bounces = 0) => returned.value = 0

C14_RecursionBounded == []C14_FramesCountDown /\ <>(result # NoneVal)

C14_DeepestCallReturnedBlack ==
    /\ max_bounces = MaxBounces
    /\ Len(stack) = max_bounces
    /\ returned # NoneVal /\ returned.num_bounces = 0 /\ returned.value = 0

Occluded(light, p, time) ==
    LET il == Light_illuminate(light, p)
        far == IF light.kind = "Directional" THEN PosInf ELSE il.t_micro - ShadowEps
    IN \E k \in 1..Len(objects) :
          Object_intersect(objects[k], Ray_new(p, il.ray_light, time),
                           Interval_new(ShadowEps, far)) # NoneVal

C17_AverageOfAccepted ==
    pixel # NoneVal =>
        /\ pixel.value.class = "finite"
        /\ accepted_n > 0 => pixel.value.num * accepted_n = pixel_color * pixel.value.den

\* C18: get_color traces exactly `iterations` samples, one in each cell of
\* the sqrt x sqrt grid, and every (s, t) lies in the footprint of pixel
\* (col, row), hence in [0, 1].
C18_OneSamplePerCell ==
    /\ sample_st # NoneVal =>
          /\ col * sample_st.s.den <= sample_st.s.num * width
          /\ sample_st.s.num * width <= (col + 1) * sample_st.s.den
          /\ row * sample_st.t.den <= sample_st.t.num * height
          /\ sample_st.t.num * height <= (row + 1) * sample_st.t.den
          /\ 0 <= sample_st.s.num /\ sample_st.s.num <= sample_st.s.den
          /\ 0 <= sample_st.t.num /\ sample_st.t.num <= sample_st.t.den
    /\ pixel # NoneVal =>
          /\ traced = iterations
          /\ Cardinality(cells) = traced

\* The image: `height` rows of `width` pixels, pixel (col, row) at column
\* col of row row.
Image == [r \in 1..height |-> [c \in 1..width |-> Pixel(c - 1, r - 1)]]

\* C19: whatever the order in which the row tasks complete, a row task
\* writes only pixels of its own row, in column order, and the buffer
\* receives exactly `height` rows of `width` pixels with pixel (col, row)
\* at column col of row row.
C19_RowsInPlace ==
    /\ \A r \in Rows : \A i \in 1..Len(task[r].row_pixels) :
          task[r].row_pixels[i] = Pixel(i - 1, r)
    /\ \A r \in Rows : colors[r + 1] # NoneVal => colors[r + 1] = Image[r + 1]
    /\ lastOp = "sample" => buffer = Image

C19_LastRowFinishedFirst ==
    /\ lastOp = "sample" /\ buffer = Image
    /\ height > 1 /\ task[height - 1].place = 1

\* C20: every random draw made while a row is computed comes from the
\* StdRng that the row task created, so no generator serves two rows.
C20_RowOwnsItsDraws ==
    \A d \in draws : d.gen = StdRng(d.row)

\* C21: from the start to the end of a render no step writes the object
\* list, the light list, the background or the BVH, nor anything else of
\* the renderer but the output buffer and the progress counter.
C21_RenderLeavesSceneUnchanged ==
    [][UNCHANGED <<objects, lights, background, bvh>>
       /\ UNCHANGED <<width, height, iterations, max_bounces>>
       /\ (pb' # pb => lastOp' \in {"row_progress", "finish"})
       /\ (buffer' # buffer => lastOp' \in {"render", "sample"})]_vars

C21_RenderedBuiltScene ==
    /\ lastOp = "sample" /\ Len(buffer) = height
    /\ objects = <<1, 3>> /\ bvh = BvhNode_build(objects)
    /\ lights # <<>>
    /\ \E d \in draws : d.purpose = "light"

\* C22: when scatter gives no direction, trace_ray makes no recursive
\* call and fails in no way: the activation returns, and what it returns
\* is exactly the emitted plus the direct light of the hit.
C22_NoScatterReturnsDirect ==
    [][lastOp' = "trace_absorb" =>
          /\ Top.pc = "lit"
          /\ Len(stack') = Len(stack) - 1
          /\ \A i \in 1..Len(stack') : stack'[i].pc # "enter"
          /\ returned' = [num_bounces |-> Top.num_bounces, value |-> Top.color]
          /\ Len(stack) = 1 => result' = [kind |-> "Some", value |-> Top.color]]_vars

C22_LitSurfaceAbsorbed ==
    /\ lastOp = "trace_absorb"
    /\ returned # NoneVal /\ returned.value = 40
    /\ stack # <<>> /\ Top.pc = "exit"

\* Interval `a` lies inside interval `b`.
Interval_within(a, b) == b.min <= a.min /\ a.max <= b.max

\* C23: every interval constructed for a shadow query has min <= max,
\* whatever the positive distance of the light, and the intervals of the
\* BVH traversal and of the linear scan only narrow: each has min <= max
\* and lies inside the interval of the call that made it.
C23_IntervalsOrderedAndNarrowing ==
    lastOp = "sample_lights" =>
        \A i \in 1..Len(lights) :
            light_terms[i].queried =>
                /\ light_terms[i].ray_t.min <= light_terms[i].ray_t.max
                /\ \A h \in Renderer_intersect_intervals(objects, bvh, light_terms[i].ray,
                                                         light_terms[i].ray_t) :
                      /\ h.child.min <= h.child.max
                      /\ Interval_within(h.child, h.parent)

\* The parameters at which the ray is at distance |radius| from the centre
\* the sphere has at the ray's time.
SphereRoots ==
    LET current_center == Ray_at(shape.center, ray.t)
        dist2(t) == Dot(VSub(Ray_at(ray, t), current_center),
                        VSub(Ray_at(ray, t), current_center))
    IN {t \in -20..20 : dist2(t) = shape.radius * shape.radius}

SetMin(S) == CHOOSE x \in S : \A y \in S : x <= y

SetMax(S) == CHOOSE x \in S : \A y \in S : y <= x

\* C24: a hit of a Sphere or a Quad has its t inside ray_t, bounds
\* included, and its p at ray.at(t); a Sphere answers with the smaller
\* root if ray_t contains it, otherwise with the larger root if ray_t
\* contains that, and with no hit when ray_t contains neither or there is
\* no root.
C24_HitInsideInterval ==
    (lastOp = "shape_intersect" /\ shape.kind \in {"sphere", "quad"}) =>
        /\ hit # NoneVal =>
              /\ ray_t.min <= hit.t /\ hit.t <= ray_t.max
              /\ hit.p = Ray_at(ray, hit.t)
        /\ shape.kind = "sphere" =>
              LET inside == {t \in SphereRoots : ray_t.min <= t /\ t <= ray_t.max}
              IN IF inside = {} THEN hit = NoneVal
                 ELSE /\ hit # NoneVal
                      /\ hit.t = IF SetMin(SphereRoots) \in inside
                                 THEN SetMin(SphereRoots) ELSE SetMax(SphereRoots)

C24_LargerRootReturned ==
    /\ lastOp = "shape_intersect" /\ shape.kind = "sphere"
    /\ Cardinality(SphereRoots) = 2
    /\ SetMin(SphereRoots) < ray_t.min
    /\ hit # NoneVal /\ hit.t = SetMax(SphereRoots)
    /\ hit.t = ray_t.max

\* The number of edges on the longest path from a node to a leaf.
RECURSIVE Height(_)
Height(n) ==
    IF n.kind = "Node"
    THEN 1 + (IF Height(n.left) >= Height(n.right) THEN Height(n.left) ELSE Height(n.right))
    ELSE 0

\* ceil(log2 n) for n >= 1.
CeilLog2(n) == CHOOSE k \in 0..n : 2^k >= n /\ (k = 0 \/ 2^(k - 1) < n)

RowsComputed == {r \in Rows : task[r].next_col = width}

\* C26: with a progress bar, the counter advances by one at a time, once
\* for a row and only when the pixels of that row are computed; it never
\* exceeds the number of such rows, it counts every row that has returned,
\* it is `height` when the last row has returned, and the bar is finished
\* only when every row has returned and the buffer holds the image.
C26_ProgressCountsRows ==
    /\ [](pb # NoneVal =>
            /\ pb.position <= Cardinality(RowsComputed)
            /\ pb.position = Cardinality({r \in Rows : task[r].progress})
            /\ Finished <= pb.position
            /\ Finished = height => pb.position = height
            /\ pb.finished => (Finished = height /\ buffer = Image /\ pb.position = height))
    /\ [][(pb # NoneVal /\ pb'.position # pb.position) =>
             /\ pb'.position = pb.position + 1
             /\ \E r \in RowsComputed :
                   /\ ~task[r].progress /\ task'[r].progress
                   /\ \A q \in Rows \ {r} : task'[q] = task[q]]_vars

C26_BarFinishedAfterInterleaving ==
    /\ pb # NoneVal /\ pb.finished /\ pb.position = height
    /\ buffer = Image
    /\ height > 1 /\ task[0].place = height

\* C27: for every material made by a constructor, the probability that
\* scatter hands to random_bool lies in [0, 1], so the call does not
\* panic, and it is at least 0.2 whenever the estimated specular
\* reflectance exceeds 1e-3.
C27_ScatterProbabilityValid ==
    lastOp = "scatter" =>
        /\ 0 <= scatter_f.f.num /\ scatter_f.f.num <= scatter_f.f.den
        /\ scatter_f.drawn # Panic
        /\ scatter_f.estimate.num * 1000 > scatter_f.estimate.den =>
              scatter_f.f.num * 5 >= scatter_f.f.den

====
